---- MODULE Spec2Model ----
(***************************************************************************)
(* A model of the extraction debugger (extract.py, extractors.py,          *)
(* models.py).                                                             *)
(*                                                                         *)
(*   Spec         process_runs: N tasks fanned out under Semaphore(5),     *)
(*                gathered, failed runs filtered out.                      *)
(*   SpecDisplay  display_results as a function of the results and the     *)
(*                output schema.                                           *)
(*   SpecSchema   create_model_from_schema as a function of the schema.    *)
(*   SpecFair     process_runs under the event loop's scheduling.          *)
(*   SpecRun      process_runs followed by main's display of its results.  *)
(*   SpecMain     main: configuration, command line, selection, the call   *)
(*                of process_runs.                                         *)
(*   SpecExtract  one extraction through a model built from the schema,    *)
(*                and the display of its result.                           *)
(***************************************************************************)
EXTENDS Integers, Sequences, FiniteSets, TLC

VARIABLES
    num_runs,            \* process_runs' num_runs argument
    extraction_method,   \* process_runs' extraction_method argument
    phase,               \* where process_runs is: spawning, gathering, returned, raised
    tasks,               \* the tasks list: one record per created task
    semaphore,           \* asyncio.Semaphore: [value, waiters]
    calls,               \* per run, the number of remote completion calls issued
    returned,            \* the list process_runs returned
    files_ok,            \* the document and the schema file can be read
    output_fields,       \* display_results: the names of output_schema['fields']
    results,             \* display_results: the results argument
    table,               \* display_results: the rows of the Individual Results table
    summary,             \* display_results: the Summary Statistics
    shown,               \* display_results has printed
    schema,              \* create_model_from_schema: the schema dictionary
    model,               \* create_model_from_schema: the model it built
    compiled,            \* create_model_from_schema has returned
    schema_error,        \* the exception that left create_model_from_schema, or ""
    args,                \* main: the parsed command line
    config_file,         \* main: config.json on disk
    dirs,                \* main: the listings of outputs/, schemas/, output_schemas/
    config,              \* main: the config dictionary
    main_pc,             \* main: where it is
    selected,            \* main: the model, extractor and paths selected so far
    last_input,          \* main: the line the user typed at the prompt, until it is dealt with
    process_runs_calls   \* main: the calls of process_runs it made

procVars == <<num_runs, extraction_method, phase, tasks, semaphore, calls, returned, files_ok>>
dispVars == <<output_fields, results, table, summary, shown>>
schemaVars == <<schema, model, compiled, schema_error>>
mainVars == <<args, config_file, dirs, config, main_pc, selected, last_input, process_runs_calls>>

(***************************************************************************)
(* Bounds and program constants                                            *)
(***************************************************************************)
\* The largest run count explored; above MaxConcurrent so that runs queue.
MaxRuns == 6

\* The most results display_results is given.
MaxResults == 3

\* The most fields an output schema declares.
MaxFields == 2

\* The most properties a schema has.
MaxProperties == 2

\* The most entries a directory, config['models'] or config['extractors'] has.
MaxFiles == 2

\* Semaphore(5), extract.py line 304.
MaxConcurrent == 5

\* The names ExtractorFactory.create_extractor knows.
KnownMethods == {"json_mode", "instructor", "structured_output"}

\* The names a caller may pass: --extractor and config.json are free text.
MethodNames == KnownMethods \cup {"regex"}

(***************************************************************************)
(* Values of a task                                                        *)
(***************************************************************************)
Pending   == [kind |-> "pending", run |-> 0]
None      == [kind |-> "none", run |-> 0]
\* The task ended with an exception (an error that escaped it, or the
\* CancelledError of its cancellation).
Raised    == [kind |-> "exception", run |-> 0]
\* The record the remote service produced for run i (the run is kept to tell
\* the runs' records apart).
Rec(i)    == [kind |-> "record", run |-> i]

Runs == 1..Len(tasks)

RECURSIVE SeqSum(_)
SeqSum(s) == IF s = <<>> THEN 0 ELSE Head(s) + SeqSum(Tail(s))

(***************************************************************************)
(* asyncio.Semaphore, as used by `async with semaphore` (extract.py 282)   *)
(***************************************************************************)
\* Mutant: the semaphore is created one slot too wide.
NewSemaphoreTooWide == [value |-> MaxConcurrent + 1, waiters |-> <<>>]

\* semaphore = Semaphore(5)
NewSemaphore == [value |-> MaxConcurrent, waiters |-> <<>>]

\* Mutant: the semaphore always counts as locked.
LockedAlways(sem) == TRUE

\* Semaphore.locked(): no slot is free, or earlier tasks are already queued.
Locked(sem) == sem.value = 0 \/ sem.waiters # <<>>

\* Mutant: a release with nobody waiting does not give the slot back.
ReleaseKeepsSlot(sem) ==
    IF sem.waiters = <<>>
    THEN [value |-> sem.value, waiters |-> <<>>, woken |-> 0]
    ELSE [value |-> sem.value, waiters |-> Tail(sem.waiters), woken |-> Head(sem.waiters)]

\* Semaphore.release(): the slot goes straight to the longest-waiting task,
\* if there is one. woken is that task, or 0.
Release(sem) ==
    IF sem.waiters = <<>>
    THEN [value |-> sem.value + 1, waiters |-> <<>>, woken |-> 0]
    ELSE [value |-> sem.value, waiters |-> Tail(sem.waiters), woken |-> Head(sem.waiters)]

\* The waiters without task i (a cancelled waiter leaves the queue).
Without(q, i) == SelectSeq(q, LAMBDA j : j # i)

(***************************************************************************)
(* extractors.py                                                           *)
(***************************************************************************)
\* Mutant: an unknown name falls back to the json_mode extractor.
CreateExtractorFallback(method) ==
    IF method \in KnownMethods THEN method ELSE "json_mode"

\* ExtractorFactory.create_extractor: a known name selects that extractor,
\* any other name raises ValueError.
CreateExtractor(method) ==
    IF method \in KnownMethods THEN method ELSE "ValueError"

\* What happens to a run once it holds a slot:
\*   io_error       open()/json.load of the document or schema raises
\*                  (the files cannot be read)
\*   init_error     the extractor's constructor raises
\*   prepare_error  create_model_from_schema raises inside extract
\*   call           the remote completion call is issued
BodyEvents == {"io_error", "init_error", "prepare_error", "call"}

\* How a remote call ends: a usable response, an exception from the client
\* (network or provider error), or a response that cannot be parsed.
CallEvents == {"ok", "call_error", "bad_response"}

\* Only the instructor and structured_output extractors build a model from
\* the schema before calling.
BuildsModel(method) == method \in {"instructor", "structured_output"}

\* <Extractor>.extract: every exception inside it is caught and turned into
\* None; a usable response becomes the run's record.
ExtractorExtract(method, i, ev) ==
    IF ev = "ok" THEN Rec(i) ELSE None

\* Mutant: no try/except around the extraction, so the exception of a failed
\* remote call leaves the task.
ExtractCurrencyAsyncNoCatch(method, i, ev) ==
    IF ev \in {"io_error", "call_error", "bad_response"} THEN Raised
    ELSE IF ev = "ok" THEN Rec(i) ELSE None

\* What the task of extract_currency_async ends with. The file reads are
\* outside the try block, so their exception leaves the task; everything from
\* create_extractor on is inside it.
ExtractCurrencyAsync(method, i, ev) ==
    IF ev = "io_error" THEN Raised
    ELSE IF CreateExtractor(method) = "ValueError" \/ ev = "init_error" THEN None
    ELSE ExtractorExtract(method, i, ev)

\* Mutant: a failed call is retried, the task going back to the start of the
\* body with its slot.
PcAfterCallRetry(ev) == IF ev = "call_error" THEN "holding" ELSE "done"

\* After the awaited call came back, extract_currency_async returns: the
\* task is done whatever the call's outcome.
PcAfterCall(ev) == "done"

(***************************************************************************)
(* process_runs                                                            *)
(***************************************************************************)
\* Mutant: the results come back last task first.
GatherReversed(ts) == [i \in 1..Len(ts) |-> ts[Len(ts) + 1 - i].result]

\* asyncio.gather(*tasks): the tasks' results in the order of the tasks.
Gather(ts) == [i \in 1..Len(ts) |-> ts[i].result]

\* Mutant: the results are returned unfiltered.
ProcessRunsReturnAll(gathered) == gathered

\* return [r for r in results if r is not None]
ProcessRunsReturn(gathered) == SelectSeq(gathered, LAMBDA r : r # None)

\* display_results has not been called.
DisplayIdle ==
    /\ output_fields = <<>>
    /\ results = <<>>
    /\ table = <<>>
    /\ summary = [total |-> 0, fields |-> <<>>]
    /\ shown = FALSE

\* create_model_from_schema has not been called.
SchemaIdle ==
    /\ schema = [properties |-> <<>>, required |-> {}]
    /\ model = [fields |-> <<>>]
    /\ compiled = FALSE
    /\ schema_error = ""

\* main is not running.
MainIdle ==
    /\ args = <<>>
    /\ config_file = <<>>
    /\ dirs = <<>>
    /\ config = <<>>
    /\ main_pc = "idle"
    /\ selected = <<>>
    /\ last_input = <<>>
    /\ process_runs_calls = <<>>

InFlight == {i \in Runs : tasks[i].pc \in {"holding", "calling"}}

Init ==
    /\ num_runs \in 0..MaxRuns
    /\ extraction_method \in MethodNames
    /\ phase = "spawning"
    /\ tasks = <<>>
    /\ semaphore = NewSemaphore
    /\ calls = [i \in 1..num_runs |-> 0]
    /\ returned = <<>>
    /\ files_ok \in BOOLEAN
    /\ DisplayIdle
    /\ SchemaIdle
    /\ MainIdle

\* for run in range(num_runs): task = asyncio.create_task(...); tasks.append(task)
CreateTask ==
    /\ phase = "spawning"
    /\ Len(tasks) < num_runs
    /\ tasks' = Append(tasks, [pc |-> "created", result |-> Pending])
    /\ UNCHANGED <<num_runs, extraction_method, phase, semaphore, calls, returned, files_ok>>
    /\ UNCHANGED <<dispVars, schemaVars, mainVars>>

\* results = await asyncio.gather(*tasks): process_runs suspends, the tasks
\* may run.
AwaitGather ==
    /\ phase = "spawning"
    /\ Len(tasks) = num_runs
    /\ phase' = "gathering"
    /\ UNCHANGED <<num_runs, extraction_method, tasks, semaphore, calls, returned, files_ok>>
    /\ UNCHANGED <<dispVars, schemaVars, mainVars>>

Running == phase = "gathering"

\* The event loop gives the tasks their first step in the order they were
\* created in, and before it handles the completion of any remote call.
NextToStart(i) == \A j \in 1..(i - 1) : tasks[j].pc # "created"
AllStarted == \A j \in Runs : tasks[j].pc # "created"

\* Task i leaves the `async with` block with result res; sem is the
\* semaphore it holds a slot of.
Finish(sem, i, res) ==
    LET rel == Release(sem) IN
    /\ semaphore' = [value |-> rel.value, waiters |-> rel.waiters]
    /\ tasks' = [j \in Runs |->
                    IF j = i THEN [pc |-> "done", result |-> res]
                    ELSE IF j = rel.woken THEN [tasks[j] EXCEPT !.pc = "holding"]
                    ELSE tasks[j]]

\* The body of extract_currency_async up to its first await, run by a task
\* that holds a slot of sem: read the files, create the extractor, prepare
\* the request and issue the remote call.
Body(sem, i, ev) ==
    /\ ev \in BodyEvents
    /\ ev = "io_error" <=> ~files_ok
    /\ ev = "prepare_error" => BuildsModel(extraction_method)
    /\ IF ev = "call" /\ CreateExtractor(extraction_method) # "ValueError"
       THEN /\ tasks' = [tasks EXCEPT ![i].pc = "calling"]
            /\ calls' = [calls EXCEPT ![i] = @ + 1]
            /\ semaphore' = sem
       ELSE /\ Finish(sem, i, ExtractCurrencyAsync(extraction_method, i, ev))
            /\ UNCHANGED calls

\* async with semaphore: with a slot free the task takes it and runs on into
\* the body without suspending; otherwise it queues behind the other waiters.
Acquire(i, ev) ==
    /\ Running
    /\ tasks[i].pc = "created"
    /\ NextToStart(i)
    /\ IF Locked(semaphore)
       THEN /\ semaphore' = [semaphore EXCEPT !.waiters = Append(@, i)]
            /\ tasks' = [tasks EXCEPT ![i].pc = "waiting"]
            /\ UNCHANGED calls
       ELSE Body([semaphore EXCEPT !.value = @ - 1], i, ev)
    /\ UNCHANGED <<num_runs, extraction_method, phase, returned, files_ok>>
    /\ UNCHANGED <<dispVars, schemaVars, mainVars>>

\* A waiter that was handed a slot resumes and runs the body.
Resume(i, ev) ==
    /\ Running
    /\ tasks[i].pc = "holding"
    /\ Body(semaphore, i, ev)
    /\ UNCHANGED <<num_runs, extraction_method, phase, returned, files_ok>>
    /\ UNCHANGED <<dispVars, schemaVars, mainVars>>

\* The awaited remote call comes back.
CompleteCall(i, ev) ==
    /\ Running
    /\ AllStarted
    /\ tasks[i].pc = "calling"
    /\ ev \in CallEvents
    /\ IF PcAfterCall(ev) = "done"
       THEN Finish(semaphore, i, ExtractCurrencyAsync(extraction_method, i, ev))
       ELSE /\ tasks' = [tasks EXCEPT ![i].pc = PcAfterCall(ev)]
            /\ UNCHANGED semaphore
    /\ UNCHANGED <<num_runs, extraction_method, phase, calls, returned, files_ok>>
    /\ UNCHANGED <<dispVars, schemaVars, mainVars>>

AllDone == \A i \in Runs : tasks[i].pc = "done"
SomeRaised == \E i \in Runs : tasks[i].result = Raised

\* gather has every result: process_runs filters and returns.
GatherReturn ==
    /\ phase = "gathering"
    /\ AllDone /\ ~SomeRaised
    /\ returned' = ProcessRunsReturn(Gather(tasks))
    /\ phase' = "returned"
    /\ UNCHANGED <<num_runs, extraction_method, tasks, semaphore, calls, files_ok>>
    /\ UNCHANGED <<dispVars, schemaVars, mainVars>>

\* gather passes on the first exception of a task: process_runs raises.
GatherRaise ==
    /\ phase = "gathering"
    /\ AllStarted
    /\ SomeRaised
    /\ phase' = "raised"
    /\ UNCHANGED <<num_runs, extraction_method, tasks, semaphore, calls, returned, files_ok>>
    /\ UNCHANGED <<dispVars, schemaVars, mainVars>>

\* asyncio.run cancels the tasks still pending once process_runs has raised:
\* CancelledError is no Exception, so it leaves the task, through the
\* `async with` of a task that holds a slot.
Cancel(i) ==
    /\ phase = "raised"
    /\ tasks[i].pc # "done"
    /\ IF tasks[i].pc \in {"holding", "calling"}
       THEN Finish(semaphore, i, Raised)
       ELSE /\ tasks' = [tasks EXCEPT ![i] = [pc |-> "done", result |-> Raised]]
            /\ semaphore' = [semaphore EXCEPT !.waiters = Without(@, i)]
    /\ UNCHANGED <<num_runs, extraction_method, phase, calls, returned, files_ok>>
    /\ UNCHANGED <<dispVars, schemaVars, mainVars>>

\* A file is removed or made unreadable while the batch runs.
FilesLost ==
    /\ files_ok
    /\ phase \in {"spawning", "gathering"}
    /\ files_ok' = FALSE
    /\ UNCHANGED <<num_runs, extraction_method, phase, tasks, semaphore, calls, returned>>
    /\ UNCHANGED <<dispVars, schemaVars, mainVars>>

Next ==
    \/ FilesLost
    \/ CreateTask
    \/ AwaitGather
    \/ \E i \in Runs, ev \in BodyEvents : Acquire(i, ev)
    \/ \E i \in Runs, ev \in BodyEvents : Resume(i, ev)
    \/ \E i \in Runs, ev \in CallEvents : CompleteCall(i, ev)
    \/ GatherReturn
    \/ GatherRaise
    \/ \E i \in Runs : Cancel(i)

vars == <<procVars, dispVars, schemaVars, mainVars>>

Spec == Init /\ [][Next]_vars

\* The batches explored under fairness: those of the json_mode extractor
\* and of an unknown extractor (the other two extractors add only the
\* prepare_error event, which ends a run like init_error does).
InitFair == Init /\ extraction_method \in {"json_mode", "regex"}

\* process_runs under the scheduling of the event loop: every task that is
\* ready is run and every remote call comes back; the loss of a file is not
\* bound to happen.
SpecFair == InitFair /\ [][Next]_vars /\ WF_vars(Next /\ files_ok' = files_ok)

(***************************************************************************)
(* display_results: field names, result values                             *)
(***************************************************************************)
\* A name is a sequence of characters. The names explored are the four
\* spellings of one two-character name: upper or lower case, space or
\* underscore.
FieldNames == {<<l, sp>> : l \in {"A", "a"}, sp \in {" ", "_"}}

\* str.lower(), character by character.
LowerChar(c) == IF c = "A" THEN "a" ELSE IF c = "B" THEN "b" ELSE c
Lower(name) == [k \in 1..Len(name) |-> LowerChar(name[k])]

\* str.replace(' ', '_')
ReplaceSpace(name) == [k \in 1..Len(name) |-> IF name[k] = " " THEN "_" ELSE name[k]]

\* The values of a result: None (JSON null), a number, True, a string, and
\* a list (an unhashable value, as an array or nested field gives).
PyNone   == [k |-> "none", v |-> 0]
Num(n)   == [k |-> "num", v |-> n]
PyTrue   == [k |-> "bool", v |-> 1]
Str(n)   == [k |-> "str", v |-> n]
PyList   == [k |-> "list", v |-> 0]

\* The strings that occur as values.
StrText == <<"EUR", "USD">>

LookupValues == {PyNone, Num(1), Str(1)}
StatValues == {PyNone, Num(1), Num(100), Num(200), Num(300), PyTrue, Str(1), PyList}

\* str(value)
PyStr(v) ==
    CASE v.k = "none" -> "None"
      [] v.k = "num"  -> ToString(v.v)
      [] v.k = "bool" -> IF v.v = 1 THEN "True" ELSE "False"
      [] v.k = "str"  -> StrText[v.v]
      [] v.k = "list" -> "[]"

\* dict.get(key): None for a key that is not there.
Get(result, key) == IF key \in DOMAIN result THEN result[key] ELSE PyNone

\* Mutant: the table's lookup never tries the lowercased name with spaces.
RowValueNoLower(result, field_name) ==
    LET v1 == Get(result, field_name)
        v2 == IF v1 = PyNone THEN Get(result, ReplaceSpace(field_name)) ELSE v1
        v4 == IF v2 = PyNone THEN Get(result, ReplaceSpace(Lower(field_name))) ELSE v2
    IN  v4

\* The table's lookup of a field in a result: the exact name, then with
\* underscores, then lowercased, then both, moving on while the value is None.
RowValue(result, field_name) ==
    LET v1 == Get(result, field_name)
        v2 == IF v1 = PyNone THEN Get(result, ReplaceSpace(field_name)) ELSE v1
        v3 == IF v2 = PyNone THEN Get(result, Lower(field_name)) ELSE v2
        v4 == IF v3 = PyNone THEN Get(result, ReplaceSpace(Lower(field_name))) ELSE v3
    IN  v4

\* One cell of the table: 'N/A' for None, str(value) otherwise.
Cell(result, field_name) ==
    LET value == RowValue(result, field_name) IN
    IF value = PyNone THEN "N/A" ELSE PyStr(value)

\* for idx, result in enumerate(results, 1): [str(idx)] + the cells
Row(idx, result, fields) ==
    <<ToString(idx)>> \o [c \in 1..Len(fields) |-> Cell(result, fields[c])]

\* The summary's lookup, the same chain again; the value stays None when
\* no spelling has one.
SummaryValue(result, field_name) ==
    LET v1 == Get(result, field_name)
        v2 == IF v1 = PyNone THEN Get(result, ReplaceSpace(field_name)) ELSE v1
        v3 == IF v2 = PyNone THEN Get(result, Lower(field_name)) ELSE v2
        v4 == IF v3 = PyNone THEN Get(result, ReplaceSpace(Lower(field_name))) ELSE v3
    IN  v4

\* values: one value per result, in result order.
Values(rs, field_name) == [n \in 1..Len(rs) |-> SummaryValue(rs[n], field_name)]

\* isinstance(v, (int, float)): bool is a subclass of int.
IsNumeric(v) == v.k \in {"num", "bool"}

\* numeric_values = [v for v in values if isinstance(v, (int, float))]
NumericValues(values) == SelectSeq(values, IsNumeric)

RECURSIVE ValueSum(_)
ValueSum(values) == IF values = <<>> THEN 0 ELSE Head(values).v + ValueSum(Tail(values))

\* Two digits after the point.
TwoDigits(n) == IF n < 10 THEN "0" \o ToString(n) ELSE ToString(n)

\* f"{total / count:.2f}": the quotient rounded to hundredths.
Format2f(total, count) ==
    LET h == (200 * total + count) \div (2 * count) IN
    ToString(h \div 100) \o "." \o TwoDigits(h % 100)

\* Python's ==: True equals 1 (and hashes alike).
PyEq(a, b) == a = b \/ (IsNumeric(a) /\ IsNumeric(b) /\ a.v = b.v)

\* How often Counter counted value x.
Count(values, x) == Cardinality({n \in 1..Len(values) : PyEq(values[n], x)})

\* statistics.mode raises: StatisticsError on no data, TypeError on an
\* unhashable value.
ModeRaises(values) ==
    values = <<>> \/ \E n \in 1..Len(values) : values[n].k = "list"

\* statistics.mode: the first value met among those counted most often.
Mode(values) ==
    LET best == {n \in 1..Len(values) :
                    \A m \in 1..Len(values) : Count(values, values[n]) >= Count(values, values[m])}
        first == CHOOSE n \in best : \A m \in best : n <= m
    IN  values[first]

\* The summary lines of one field: the average over the numeric values if
\* there are any; the most common value unless mode raised.
FieldSummary(rs, field_name) ==
    LET values == Values(rs, field_name)
        numeric_values == NumericValues(values)
    IN  [has_average |-> numeric_values # <<>>,
         average |-> IF numeric_values # <<>>
                     THEN Format2f(ValueSum(numeric_values), Len(numeric_values))
                     ELSE "",
         has_most_common |-> ~ModeRaises(values),
         most_common |-> IF ModeRaises(values) THEN "" ELSE PyStr(Mode(values))]

\* display_results: the table, then the summary.
DisplayResults ==
    /\ ~shown
    /\ output_fields # <<>>
    /\ table' = [n \in 1..Len(results) |-> Row(n, results[n], output_fields)]
    /\ summary' = [total |-> Len(results),
                   fields |-> [c \in 1..Len(output_fields) |->
                                  FieldSummary(results, output_fields[c])]]
    /\ shown' = TRUE
    /\ UNCHANGED <<output_fields, results>>
    /\ UNCHANGED <<procVars, schemaVars, mainVars>>

\* The result of a run as display_results gets it: a mapping with one field,
\* whose value is the number the run was submitted under (this tells the
\* runs' rows apart).
ResultKey == <<"a", "_">>
ResultOf(rec) == (ResultKey :> Num(rec.run))

\* main, after process_runs returned: if results: display_results(results,
\* output_schema_path), for an output schema of the one field.
ShowResults ==
    /\ phase = "returned"
    /\ returned # <<>>
    /\ ~shown
    /\ results' = [n \in 1..Len(returned) |-> ResultOf(returned[n])]
    /\ output_fields' = <<ResultKey>>
    /\ table' = [n \in 1..Len(returned) |-> Row(n, results'[n], output_fields')]
    /\ summary' = [total |-> Len(returned),
                   fields |-> <<FieldSummary(results', ResultKey)>>]
    /\ shown' = TRUE
    /\ UNCHANGED <<procVars, schemaVars, mainVars>>

\* process_runs as main runs it, followed by the display of its results.
NextRun == Next \/ ShowResults

SpecRun == Init /\ [][NextRun]_vars

\* process_runs is not running.
ProcessIdle ==
    /\ num_runs = 0
    /\ extraction_method = "json_mode"
    /\ phase = "idle"
    /\ tasks = <<>>
    /\ semaphore = NewSemaphore
    /\ calls = <<>>
    /\ returned = <<>>
    /\ files_ok = TRUE

SeqsUpTo(S, n) == UNION {[1..k -> S] : k \in 0..n}

\* Every mapping from some of the names to the values in V.
Mappings(V) == UNION {[D -> V] : D \in SUBSET FieldNames}

\* The mappings with at most the one key.
OneKeyMappings(key, V) == {<<>>} \cup {(key :> v) : v \in V}

\* The inputs explored: one result with any keys, looked up for one to
\* MaxFields fields; and up to MaxResults results that hold any values
\* under one key, summarised for one field.
InitDisplay ==
    /\ ProcessIdle
    /\ SchemaIdle
    /\ MainIdle
    /\ table = <<>>
    /\ summary = [total |-> 0, fields |-> <<>>]
    /\ shown = FALSE
    /\ \/ /\ output_fields \in SeqsUpTo(FieldNames, MaxFields) \ {<<>>}
          /\ \E m \in Mappings(LookupValues) : results = <<m>>
       \/ /\ \E f \in FieldNames : output_fields = <<f>>
          /\ \E key \in FieldNames :
                results \in SeqsUpTo(OneKeyMappings(key, StatValues), MaxResults)

NextDisplay == DisplayResults

SpecDisplay == InitDisplay /\ [][NextDisplay]_vars

(***************************************************************************)
(* models.py: create_model_from_schema                                     *)
(***************************************************************************)
\* The property names explored: two pairs of names, the two names of a pair
\* differing in case and in space against underscore.
PropertyNames == {<<"A", " ">>, <<"a", "_">>, <<"B", " ">>, <<"b", "_">>}

\* The scalar property schemas: string, date string, number, boolean, and a
\* type get_field_type does not know.
ScalarSchemas ==
    {[type |-> "string", format |-> ""], [type |-> "string", format |-> "date"],
     [type |-> "number", format |-> ""], [type |-> "boolean", format |-> ""],
     [type |-> "integer", format |-> ""]}

\* The types get_field_type returns. A model type carries its field
\* definitions; KeyError stands for the exception the lookup
\* item_schema['properties'] raises.
ScalarType(kind) == [kind |-> kind]
AnyType == [kind |-> "Any"]
ListOf(item) == [kind |-> "List", item |-> item]
ModelOf(fields) == [kind |-> "Model", fields |-> fields]
KeyError == [kind |-> "KeyError"]

\* python_field_name = field_name.lower().replace(' ', '_')
PythonFieldName(field_name) == ReplaceSpace(Lower(field_name))

\* field_definitions[key] = definition: a key that is there keeps its place
\* and takes the new definition, a new key goes to the end.
DictSet(definitions, definition) ==
    IF \E k \in 1..Len(definitions) : definitions[k].name = definition.name
    THEN [k \in 1..Len(definitions) |->
             IF definitions[k].name = definition.name THEN definition ELSE definitions[k]]
    ELSE Append(definitions, definition)

\* create_model(title, **definitions); an exception raised while the
\* definitions were computed passes through.
CreateModel(definitions) ==
    IF \E k \in 1..Len(definitions) : definitions[k].type = KeyError
    THEN KeyError
    ELSE ModelOf(definitions)

\* field_schema.get('properties', {})
GetProperties(field_schema) ==
    IF "properties" \in DOMAIN field_schema THEN field_schema.properties ELSE <<>>

RECURSIVE GetFieldType(_)
RECURSIVE NestedFieldDefinitions(_, _)

\* The loops over the properties of an array item (lines 49-57) and of a
\* nested object (lines 69-77): the definition of a field is its type and
\* its alias, never Optional, and `required` is not read.
NestedFieldDefinitions(properties, definitions) ==
    IF properties = <<>> THEN definitions
    ELSE NestedFieldDefinitions(Tail(properties),
             DictSet(definitions,
                     [name |-> PythonFieldName(Head(properties).name),
                      alias |-> Head(properties).name,
                      type |-> GetFieldType(Head(properties).schema),
                      optional |-> FALSE]))

\* get_field_type: the scalar types; for an array with items, a list of a
\* model of the item's properties (item_schema['properties'] must be there)
\* or a list of the item's type; for an object, a model of its properties
\* (none if it has no 'properties'); Any for everything else, an array
\* without 'items' included.
GetFieldType(field_schema) ==
    CASE field_schema.type = "string" ->
             IF field_schema.format = "date" THEN ScalarType("date") ELSE ScalarType("str")
      [] field_schema.type = "number" -> ScalarType("float")
      [] field_schema.type = "boolean" -> ScalarType("bool")
      [] field_schema.type = "array" ->
             IF "items" \in DOMAIN field_schema
             THEN LET item_schema == field_schema.items IN
                  IF item_schema.type = "object"
                  THEN IF "properties" \in DOMAIN item_schema
                       THEN LET ItemModel ==
                                    CreateModel(NestedFieldDefinitions(item_schema.properties, <<>>))
                            IN  IF ItemModel = KeyError THEN KeyError ELSE ListOf(ItemModel)
                       ELSE KeyError
                  ELSE LET item == GetFieldType(item_schema) IN
                       IF item = KeyError THEN KeyError ELSE ListOf(item)
             ELSE AnyType
      [] field_schema.type = "object" ->
             CreateModel(NestedFieldDefinitions(GetProperties(field_schema), <<>>))
      [] OTHER -> AnyType

\* The definition of one field: Optional[type] unless the property's name is
\* in required_fields; the schema's name is the alias.
FieldDefinition(field_name, field_schema, required_fields) ==
    [name |-> PythonFieldName(field_name),
     alias |-> field_name,
     type |-> GetFieldType(field_schema),
     optional |-> field_name \notin required_fields]

\* for field_name, field_schema in schema.get('properties', {}).items(): ...
RECURSIVE FieldDefinitions(_, _, _)
FieldDefinitions(properties, required_fields, definitions) ==
    IF properties = <<>> THEN definitions
    ELSE FieldDefinitions(Tail(properties), required_fields,
             DictSet(definitions,
                     FieldDefinition(Head(properties).name, Head(properties).schema,
                                     required_fields)))

\* create_model_from_schema: it returns the model, or the KeyError of
\* get_field_type leaves it.
CreateModelFromSchema ==
    /\ ~compiled
    /\ schema_error = ""
    /\ LET Model == CreateModel(FieldDefinitions(GetProperties(schema), schema.required, <<>>))
       IN  IF Model = KeyError
           THEN /\ schema_error' = "KeyError"
                /\ UNCHANGED <<model, compiled>>
           ELSE /\ model' = [fields |-> Model.fields]
                /\ compiled' = TRUE
                /\ UNCHANGED schema_error
    /\ UNCHANGED schema
    /\ UNCHANGED <<procVars, dispVars, mainVars>>

\* The properties of a schema: an object's keys are distinct.
Distinct(properties) ==
    \A a, b \in 1..Len(properties) : a # b => properties[a].name # properties[b].name

PropertyLists ==
    {ps \in SeqsUpTo([name : PropertyNames, schema : ScalarSchemas], MaxProperties) :
        Distinct(ps)}

\* The schemas of the properties of a nested object or of an array item: two
\* scalars, an array of strings, and an object that has no 'properties'.
InnerSchemas ==
    {[type |-> "string", format |-> ""], [type |-> "number", format |-> ""],
     [type |-> "array", items |-> [type |-> "string", format |-> ""]],
     [type |-> "object"]}

InnerPropertyLists ==
    {ps \in SeqsUpTo([name : PropertyNames, schema : InnerSchemas], MaxProperties) :
        Distinct(ps)}

NamesOf(properties) == {properties[k].name : k \in 1..Len(properties)}

\* Object nodes: without 'properties', or with up to MaxProperties of them
\* and any of their names required.
ObjectSchemas ==
    {[type |-> "object"]} \cup
    UNION {{[type |-> "object", properties |-> ps, required |-> req] :
               req \in SUBSET NamesOf(ps)} : ps \in InnerPropertyLists}

\* Array nodes: without 'items', or with items of an inner or object schema.
ArraySchemas ==
    {[type |-> "array"]} \cup
    {[type |-> "array", items |-> s] : s \in InnerSchemas \cup ObjectSchemas}

\* The name of the property that holds the nested node.
NestedPropertyName == <<"B", " ">>

\* The inputs explored: every schema of up to MaxProperties scalar
\* properties, with any of the names required; every schema of one property
\* that is an object or an array node, required or not; and the schema that
\* has no 'properties'.
InitSchema ==
    /\ ProcessIdle
    /\ DisplayIdle
    /\ MainIdle
    /\ model = [fields |-> <<>>]
    /\ compiled = FALSE
    /\ schema_error = ""
    /\ \/ \E ps \in PropertyLists, req \in SUBSET PropertyNames :
             schema = [properties |-> ps, required |-> req]
       \/ \E s \in ObjectSchemas \cup ArraySchemas, req \in SUBSET {NestedPropertyName} :
             schema = [properties |-> <<[name |-> NestedPropertyName, schema |-> s]>>,
                       required |-> req]
       \/ schema = [required |-> {}]

NextSchema == CreateModelFromSchema

SpecSchema == InitSchema /\ [][NextSchema]_vars

(***************************************************************************)
(* extractors.py: the extraction through a model, and its display          *)
(***************************************************************************)
\* The values an instance of the model can hold in a field of a scalar
\* type; one value stands for each type.
ValueOfType(type) ==
    CASE type.kind = "str"   -> Str(1)
      [] type.kind = "float" -> Num(1)
      [] type.kind = "bool"  -> PyTrue

\* The values of one field: the type's, and None when the field is
\* Optional. No field has a default, so each holds a value the response gave.
FieldValues(field) ==
    {ValueOfType(field.type)} \cup (IF field.optional THEN {PyNone} ELSE {})

\* The instances the response can be validated into (response_model /
\* response_format): one value per field of the model.
Instances(m) ==
    {inst \in [1..Len(m.fields) -> {PyNone, Str(1), Num(1), PyTrue}] :
        \A k \in 1..Len(m.fields) : inst[k] \in FieldValues(m.fields[k])}

\* Mutant: the mapping is keyed by the fields' aliases, the schema's names.
ModelDumpByAlias(m, inst) ==
    [key \in {m.fields[k].alias : k \in 1..Len(m.fields)} |->
        inst[CHOOSE k \in 1..Len(m.fields) : m.fields[k].alias = key]]

\* invoice_data.model_dump(): the mapping from the fields' names, the keys
\* of field_definitions, to their values.
ModelDump(m, inst) ==
    [key \in {m.fields[k].name : k \in 1..Len(m.fields)} |->
        inst[CHOOSE k \in 1..Len(m.fields) : m.fields[k].name = key]]

\* InstructorExtractor.extract and StructuredOutputExtractor.extract, after
\* create_model_from_schema returned: the awaited call answers with an
\* instance of the model, and the run's result is its model_dump(). (A call
\* that raises gives None, which process_runs drops: nothing is displayed.)
ExtractThroughModel ==
    /\ BuildsModel(extraction_method)
    /\ compiled
    /\ results = <<>>
    /\ \E inst \in Instances(model) : results' = <<ModelDump(model, inst)>>
    /\ UNCHANGED <<output_fields, table, summary, shown>>
    /\ UNCHANGED <<procVars, schemaVars, mainVars>>

\* main: if results: display_results(results, output_schema_path)
DisplayExtracted ==
    /\ results # <<>>
    /\ DisplayResults

\* The property schemas explored here: a string and a number.
ExtractedSchemas == {[type |-> "string", format |-> ""], [type |-> "number", format |-> ""]}

ExtractedPropertyLists ==
    {ps \in SeqsUpTo([name : PropertyNames, schema : ExtractedSchemas], MaxProperties) :
        Distinct(ps)}

\* The inputs explored: one run by either of the two extractors that build
\* a model, over every schema of up to MaxProperties string or number
\* properties with any of them required, displayed for an output schema of
\* one field that has any of the property names.
InitExtract ==
    /\ num_runs = 1
    /\ extraction_method \in {"instructor", "structured_output"}
    /\ phase = "idle"
    /\ tasks = <<>>
    /\ semaphore = NewSemaphore
    /\ calls = <<>>
    /\ returned = <<>>
    /\ files_ok = TRUE
    /\ MainIdle
    /\ model = [fields |-> <<>>]
    /\ compiled = FALSE
    /\ schema_error = ""
    /\ \E ps \in ExtractedPropertyLists :
          \E req \in SUBSET NamesOf(ps) :
              schema = [properties |-> ps, required |-> req]
    /\ \E f \in PropertyNames : output_fields = <<f>>
    /\ results = <<>>
    /\ table = <<>>
    /\ summary = [total |-> 0, fields |-> <<>>]
    /\ shown = FALSE

NextExtract == CreateModelFromSchema \/ ExtractThroughModel \/ DisplayExtracted

SpecExtract == InitExtract /\ [][NextExtract]_vars

(***************************************************************************)
(* extract.py: main, load_config, the select_* functions                   *)
(***************************************************************************)
\* The selectable dimensions, in the order interactive mode asks for them.
Dimensions == <<"model", "extractor", "doc", "schema", "output_schema">>
DimensionSet == {Dimensions[k] : k \in 1..Len(Dimensions)}

\* The dimensions whose items are files of a directory.
FileDimensions == {"doc", "schema", "output_schema"}

\* The config key that holds the default of dimension d.
DefaultKey(d) == "default_" \o d

\* The dimension a default key belongs to.
DimensionOf(key) == CHOOSE d \in DimensionSet : DefaultKey(d) = key

\* f.endswith('.md') for documents, f.endswith('.json') for the schemas.
Extension(d) == IF d = "doc" THEN "md" ELSE "json"

\* A name: a file name is a stem and an extension, the name of a model or of
\* an extractor has no extension.
Name(stem, ext) == [stem |-> stem, ext |-> ext]

\* None (an option that was not given, a key that is not there, no selection).
NoName == Name("", "")

\* The names explored for dimension d: for a directory two files with the
\* listed extension and one without it, for models and extractors three
\* names.
Names(d) ==
    IF d \in FileDimensions
    THEN {Name("a", Extension(d)), Name("b", Extension(d)), Name("a", "txt")}
    ELSE {Name("a", ""), Name("b", ""), Name("c", "")}

\* name in items
In(name, items) == \E k \in 1..Len(items) : items[k] = name

\* config.get(key): None for a key that is not there.
ConfigGet(cfg, key) == IF key \in DOMAIN cfg THEN cfg[key] ELSE NoName

\* load_config: the dictionary in config.json, or None if the file is not
\* there, is not JSON or has no 'models'.
LoadConfig(file) ==
    IF file.state = "json" /\ "models" \in DOMAIN file.content
    THEN [ok |-> TRUE, config |-> file.content]
    ELSE [ok |-> FALSE, config |-> <<>>]

\* Mutant: the command line's options are not applied.
ApplyOverridesNone(cfg, a) == cfg

\* if args.doc: config['default_doc'] = args.doc, and so on for the five
\* options.
ApplyOverrides(cfg, a) ==
    LET given == {DefaultKey(d) : d \in {e \in DimensionSet : a.override[e] # NoName}} IN
    [key \in DOMAIN cfg \cup given |->
        IF key \in given THEN a.override[DimensionOf(key)] ELSE cfg[key]]

\* validate_defaults: every one of the five default keys is in config.
ValidateDefaults(cfg) == \A d \in DimensionSet : DefaultKey(d) \in DOMAIN cfg

\* os.path.exists(os.path.join(directory, name))
Exists(listing, name) == In(name, listing)

\* Mutant: the default paths are returned without looking for the files.
GetDefaultPathsUnchecked(cfg, listings) ==
    [ok |-> TRUE,
     paths |-> [d \in FileDimensions |-> cfg[DefaultKey(d)]]]

\* get_default_paths: the three default paths, or (None, None, None) when
\* one of the files does not exist.
GetDefaultPaths(cfg, listings) ==
    IF \A d \in FileDimensions : Exists(listings[d], cfg[DefaultKey(d)])
    THEN [ok |-> TRUE, paths |-> [d \in FileDimensions |-> cfg[DefaultKey(d)]]]
    ELSE [ok |-> FALSE, paths |-> [d \in FileDimensions |-> NoName]]

\* The items a select_* function offers: the keys of config['models'],
\* config.get('extractors', []), or the files of the directory that have the
\* extension.
Offered(d, cfg, listings) ==
    IF d = "model" THEN cfg["models"]
    ELSE IF d = "extractor"
         THEN (IF "extractors" \in DOMAIN cfg THEN cfg["extractors"] ELSE <<>>)
         ELSE SelectSeq(listings[d], LAMBDA f : f.ext = Extension(d))

\* select_*, up to the prompt: None for no items, the only item, the
\* default if it is one of the items; else the user is asked.
SelectItem(items, default) ==
    IF items = <<>> THEN [prompt |-> FALSE, value |-> NoName]
    ELSE IF Len(items) = 1 THEN [prompt |-> FALSE, value |-> items[1]]
    ELSE IF default # NoName /\ In(default, items) THEN [prompt |-> FALSE, value |-> default]
    ELSE [prompt |-> TRUE, value |-> NoName]

\* The characters the user types.
InputChars == {"0", "1", "2", "-", "x"}
Digits == {"0", "1", "2"}
DigitValue(c) == IF c = "1" THEN 1 ELSE IF c = "2" THEN 2 ELSE 0

\* The value of a string of digits.
RECURSIVE Decimal(_)
Decimal(s) ==
    IF s = <<>> THEN 0
    ELSE 10 * Decimal(SubSeq(s, 1, Len(s) - 1)) + DigitValue(s[Len(s)])

AllDigits(s) == s # <<>> /\ \A k \in 1..Len(s) : s[k] \in Digits

\* int(text): digits, with a minus sign before them or not; ValueError for
\* anything else.
PyInt(text) ==
    IF AllDigits(text) THEN [ok |-> TRUE, value |-> Decimal(text)]
    ELSE IF text # <<>> /\ text[1] = "-" /\ AllDigits(Tail(text))
         THEN [ok |-> TRUE, value |-> 0 - Decimal(Tail(text))]
         ELSE [ok |-> FALSE, value |-> 0]

\* Prompt.ask(..., default=...): an empty line stands for the default.
PromptAsk(typed, default) == IF typed = <<>> THEN default ELSE typed

\* One round of a select_* loop: idx = int(choice) - 1; the item at idx if
\* 0 <= idx < len(items), else the loop goes round again.
ChooseItem(items, choice) ==
    LET n == PyInt(choice)
        idx == n.value - 1
    IN  IF n.ok /\ 0 <= idx /\ idx < Len(items)
        THEN [ok |-> TRUE, value |-> items[idx + 1]]
        ELSE [ok |-> FALSE, value |-> NoName]

\* Mutant: zero counts as a number of runs.
GetNumberOfRunsFromZero(choice) ==
    LET n == PyInt(choice) IN
    IF n.ok /\ n.value >= 0 THEN [ok |-> TRUE, value |-> n.value]
    ELSE [ok |-> FALSE, value |-> 0]

\* One round of get_number_of_runs: runs = int(runs); runs if runs > 0,
\* else the loop goes round again.
GetNumberOfRuns(choice) ==
    LET n == PyInt(choice) IN
    IF n.ok /\ n.value > 0 THEN [ok |-> TRUE, value |-> n.value]
    ELSE [ok |-> FALSE, value |-> 0]

\* process_runs(file_path, schema_path, num_runs, config['models'][model],
\* extractor), as main calls it.
ProcessRunsCall(sel, n) ==
    [file_path |-> sel["doc"], schema_path |-> sel["schema"], num_runs |-> n,
     model |-> sel["model"], extraction_method |-> sel["extractor"]]

\* What main goes on to when dimension d has been selected.
After(d) ==
    CASE d = "model" -> "select_extractor"
      [] d = "extractor" -> "display_config"
      [] d = "doc" -> "select_schema"
      [] d = "schema" -> "select_output_schema"
      [] d = "output_schema" -> "num_runs"

\* config = load_config(); if not config: return
MainLoadConfig ==
    /\ main_pc = "load_config"
    /\ LET loaded == LoadConfig(config_file) IN
       IF loaded.ok
       THEN /\ config' = loaded.config
            /\ main_pc' = "overrides"
       ELSE /\ main_pc' = "returned"
            /\ UNCHANGED config
    /\ UNCHANGED <<args, config_file, dirs, selected, last_input, process_runs_calls>>
    /\ UNCHANGED <<procVars, dispVars, schemaVars>>

\* The overrides of the command line; then the -y branch or interactive mode.
MainOverrides ==
    /\ main_pc = "overrides"
    /\ config' = ApplyOverrides(config, args)
    /\ main_pc' = IF args.yes THEN "validate_defaults" ELSE "select_model"
    /\ UNCHANGED <<args, config_file, dirs, selected, last_input, process_runs_calls>>
    /\ UNCHANGED <<procVars, dispVars, schemaVars>>

\* if not validate_defaults(config): return
MainValidateDefaults ==
    /\ main_pc = "validate_defaults"
    /\ main_pc' = IF ValidateDefaults(config) THEN "get_default_paths" ELSE "returned"
    /\ UNCHANGED <<args, config_file, dirs, config, selected, last_input, process_runs_calls>>
    /\ UNCHANGED <<procVars, dispVars, schemaVars>>

\* file_path, schema_path, output_schema_path = get_default_paths(config);
\* if not all([...]): return
MainGetDefaultPaths ==
    /\ main_pc = "get_default_paths"
    /\ LET found == GetDefaultPaths(config, dirs) IN
       IF found.ok
       THEN /\ selected' = [d \in DimensionSet |->
                               IF d \in FileDimensions THEN found.paths[d] ELSE selected[d]]
            /\ main_pc' = "run_defaults"
       ELSE /\ main_pc' = "returned"
            /\ UNCHANGED selected
    /\ UNCHANGED <<args, config_file, dirs, config, last_input, process_runs_calls>>
    /\ UNCHANGED <<procVars, dispVars, schemaVars>>

\* The rest of the -y branch: the default model and extractor, the run count
\* of -n or 1, and the call of process_runs; config['models'][selected_model]
\* raises KeyError for a model that is not configured, and main returns.
MainRunDefaults ==
    /\ main_pc = "run_defaults"
    /\ LET selected_model == config[DefaultKey("model")]
           selected_extractor == config[DefaultKey("extractor")]
           num == IF args.num_runs.given THEN args.num_runs.value ELSE 1
           sel == [selected EXCEPT !["model"] = selected_model,
                                   !["extractor"] = selected_extractor]
       IN  /\ selected' = sel
           /\ process_runs_calls' =
                  IF In(selected_model, config["models"])
                  THEN Append(process_runs_calls, ProcessRunsCall(sel, num))
                  ELSE process_runs_calls
    /\ main_pc' = "returned"
    /\ UNCHANGED <<args, config_file, dirs, config, last_input>>
    /\ UNCHANGED <<procVars, dispVars, schemaVars>>

\* select_model, select_extractor, select_file, select_schema and
\* select_output_schema up to their prompt; main returns when nothing was
\* selected.
MainSelect(d) ==
    /\ main_pc = "select_" \o d
    /\ LET found == SelectItem(Offered(d, config, dirs), ConfigGet(config, DefaultKey(d))) IN
       IF found.prompt
       THEN /\ main_pc' = "prompt_" \o d
            /\ UNCHANGED selected
       ELSE IF found.value = NoName
            THEN /\ main_pc' = "returned"
                 /\ UNCHANGED selected
            ELSE /\ main_pc' = After(d)
                 /\ selected' = [selected EXCEPT ![d] = found.value]
    /\ UNCHANGED <<args, config_file, dirs, config, last_input, process_runs_calls>>
    /\ UNCHANGED <<procVars, dispVars, schemaVars>>

\* Prompt.ask in the loop of a select_* function returns the line the user
\* typed.
MainAsk(d, typed) ==
    /\ main_pc = "prompt_" \o d
    /\ last_input' = typed
    /\ main_pc' = "choice_" \o d
    /\ UNCHANGED <<args, config_file, dirs, config, selected, process_runs_calls>>
    /\ UNCHANGED <<procVars, dispVars, schemaVars>>

\* The rest of the round: the choice selects an item and the function
\* returns it, or the loop goes round to the prompt again.
MainChoice(d) ==
    /\ main_pc = "choice_" \o d
    /\ LET chosen == ChooseItem(Offered(d, config, dirs), PromptAsk(last_input, <<"1">>)) IN
       IF chosen.ok
       THEN /\ main_pc' = After(d)
            /\ selected' = [selected EXCEPT ![d] = chosen.value]
       ELSE /\ main_pc' = "prompt_" \o d
            /\ UNCHANGED selected
    /\ last_input' = <<>>
    /\ UNCHANGED <<args, config_file, dirs, config, process_runs_calls>>
    /\ UNCHANGED <<procVars, dispVars, schemaVars>>

\* if not display_config(...): return. The user confirms or declines.
MainDisplayConfig(proceed) ==
    /\ main_pc = "display_config"
    /\ main_pc' = IF proceed THEN "select_doc" ELSE "returned"
    /\ UNCHANGED <<args, config_file, dirs, config, selected, last_input, process_runs_calls>>
    /\ UNCHANGED <<procVars, dispVars, schemaVars>>

\* num_runs = args.num_runs if args.num_runs is not None else
\* get_number_of_runs(): with -n, process_runs is called at once.
MainNumRuns ==
    /\ main_pc = "num_runs"
    /\ IF args.num_runs.given
       THEN /\ process_runs_calls' =
                   Append(process_runs_calls, ProcessRunsCall(selected, args.num_runs.value))
            /\ main_pc' = "returned"
       ELSE /\ main_pc' = "prompt_num_runs"
            /\ UNCHANGED process_runs_calls
    /\ UNCHANGED <<args, config_file, dirs, config, selected, last_input>>
    /\ UNCHANGED <<procVars, dispVars, schemaVars>>

\* Prompt.ask in get_number_of_runs returns the line the user typed.
MainAskRuns(typed) ==
    /\ main_pc = "prompt_num_runs"
    /\ last_input' = typed
    /\ main_pc' = "choice_num_runs"
    /\ UNCHANGED <<args, config_file, dirs, config, selected, process_runs_calls>>
    /\ UNCHANGED <<procVars, dispVars, schemaVars>>

\* The rest of the round of get_number_of_runs: with the number it returns
\* process_runs is called; or the loop goes round to the prompt again.
MainChoiceRuns ==
    /\ main_pc = "choice_num_runs"
    /\ LET runs == GetNumberOfRuns(PromptAsk(last_input, <<"1">>)) IN
       IF runs.ok
       THEN /\ process_runs_calls' =
                   Append(process_runs_calls, ProcessRunsCall(selected, runs.value))
            /\ main_pc' = "returned"
       ELSE /\ main_pc' = "prompt_num_runs"
            /\ UNCHANGED process_runs_calls
    /\ last_input' = <<>>
    /\ UNCHANGED <<args, config_file, dirs, config, selected>>
    /\ UNCHANGED <<procVars, dispVars, schemaVars>>

\* The lines the user types: the empty line and the lines of one and of two
\* characters.
Inputs == {<<>>} \cup {<<c>> : c \in InputChars} \cup {<<c, e>> : c, e \in InputChars}

\* A listing: up to MaxFiles different names.
Listings(d) ==
    {l \in SeqsUpTo(Names(d), MaxFiles) : \A a, b \in 1..Len(l) : a # b => l[a] # l[b]}

\* The items and the default of a dimension that is not varied.
UsualItems(d) ==
    IF d \in FileDimensions
    THEN <<Name("a", Extension(d)), Name("b", Extension(d))>>
    ELSE <<Name("a", ""), Name("b", "")>>
UsualDefault(d) == UsualItems(d)[1]

\* -n: not given, or an integer (argparse's type=int takes any).
NumRunsArgs ==
    {[given |-> FALSE, value |-> 0]} \cup {[given |-> TRUE, value |-> n] : n \in {0 - 1, 0, 2}}

\* The content of a config.json in which dimension focus has the items and
\* the default given (NoName: no default key) and the others the usual ones.
ConfigContent(focus, items, default) ==
    LET keys == {"models", "extractors"} \cup
                {DefaultKey(d) : d \in {e \in DimensionSet : e # focus \/ default # NoName}}
    IN  [key \in keys |->
            IF key = "models"
            THEN (IF focus = "model" THEN items ELSE UsualItems("model"))
            ELSE IF key = "extractors"
            THEN (IF focus = "extractor" THEN items ELSE UsualItems("extractor"))
            ELSE IF DimensionOf(key) = focus THEN default
            ELSE UsualDefault(DimensionOf(key))]

\* config.json without its 'models'.
WithoutModels(content) == [key \in DOMAIN content \ {"models"} |-> content[key]]

\* The inputs explored: any command line that overrides at most one
\* dimension; for that dimension any listing, any default in config.json or
\* none; and, with the usual items everywhere, a config.json that is not
\* there, is not JSON or has no 'models'.
InitMain ==
    /\ ProcessIdle
    /\ DisplayIdle
    /\ SchemaIdle
    /\ config = <<>>
    /\ main_pc = "load_config"
    /\ selected = [d \in DimensionSet |-> NoName]
    /\ last_input = <<>>
    /\ process_runs_calls = <<>>
    /\ \E yes \in BOOLEAN, n \in NumRunsArgs, focus \in DimensionSet :
          \E override \in Names(focus) \cup {NoName}, items \in Listings(focus),
             default \in Names(focus) \cup {NoName} :
             /\ args = [yes |-> yes, num_runs |-> n,
                        override |-> [d \in DimensionSet |->
                                         IF d = focus THEN override ELSE NoName]]
             /\ dirs = [d \in FileDimensions |->
                           IF d = focus THEN items ELSE UsualItems(d)]
             /\ \/ config_file = [state |-> "json",
                                  content |-> ConfigContent(focus, items, default)]
                \/ /\ items = UsualItems(focus)
                   /\ config_file \in
                         {[state |-> "absent", content |-> <<>>],
                          [state |-> "invalid", content |-> <<>>],
                          [state |-> "json",
                           content |-> WithoutModels(ConfigContent(focus, items, default))]}

NextMain ==
    \/ MainLoadConfig
    \/ MainOverrides
    \/ MainValidateDefaults
    \/ MainGetDefaultPaths
    \/ MainRunDefaults
    \/ \E d \in DimensionSet : MainSelect(d)
    \/ \E d \in DimensionSet, typed \in Inputs : MainAsk(d, typed)
    \/ \E d \in DimensionSet : MainChoice(d)
    \/ \E proceed \in BOOLEAN : MainDisplayConfig(proceed)
    \/ MainNumRuns
    \/ \E typed \in Inputs : MainAskRuns(typed)
    \/ MainChoiceRuns

SpecMain == InitMain /\ [][NextMain]_vars

(***************************************************************************)
(* Claims about process_runs, checked under Spec                           *)
(***************************************************************************)
Succeeded == {i \in Runs : tasks[i].result = Rec(i)}

\* C1: at no time do more than 5 runs hold a slot of the semaphore (are
\* inside extract_currency_async's `async with`), whatever the run count and
\* the order of starts and completions.
C1_AtMostFiveInFlight == Cardinality(InFlight) <= 5

\* C1 witness: five runs hold a slot while another one queues.
C1_Witness == Cardinality(InFlight) = 5 /\ semaphore.waiters # <<>>

\* C2: the list process_runs returns has one entry per run whose extract
\* produced a record: the failed runs are dropped, nothing else is dropped
\* and nothing is duplicated.
C2_ReturnsTheSuccessfulRuns ==
    phase = "returned" =>
        /\ Len(returned) = Cardinality(Succeeded)
        /\ \A i \in Succeeded : \E k \in 1..Len(returned) : returned[k] = Rec(i)
        /\ \A k \in 1..Len(returned) : returned[k].kind = "record"
        /\ \A a, b \in 1..Len(returned) : a # b => returned[a] # returned[b]

\* C2 witness: five runs, two of them failed, three results returned.
C2_Witness ==
    /\ phase = "returned"
    /\ num_runs = 5
    /\ Cardinality({i \in Runs : tasks[i].result = None}) = 2
    /\ Len(returned) = 3

\* C3: the returned results are in submission order: the record of run i
\* precedes the record of run j whenever i < j.
C3_SubmissionOrder ==
    phase = "returned" =>
        \A a, b \in 1..Len(returned) : a < b => returned[a].run < returned[b].run

\* C3 witness: a batch has returned at least three records, with a failed
\* run between two successful ones.
C3_Witness ==
    /\ phase = "returned"
    /\ Len(returned) >= 3
    /\ \E i, j, k \in Runs : i < j /\ j < k /\ i \in Succeeded /\ k \in Succeeded
                              /\ tasks[j].result = None

\* C4: a run whose remote call fails ends with None, and that step neither
\* aborts the batch nor changes the result of another run or ends another
\* run (it may hand the freed slot to a queued run).
C4_FailureIsLocal ==
    [][\A i \in Runs :
          (phase = "gathering" /\ tasks[i].pc = "calling"
              /\ tasks'[i].pc = "done" /\ tasks'[i].result # Rec(i))
          => /\ tasks'[i].result = None
             /\ phase' = "gathering"
             /\ \A j \in Runs \ {i} :
                   /\ tasks'[j].result = tasks[j].result
                   /\ \/ tasks'[j].pc = tasks[j].pc
                      \/ tasks[j].pc = "waiting" /\ tasks'[j].pc = "holding"]_vars

\* C4 witness: a batch returned in which one run's call failed and another
\* run's record is there.
C4_Witness ==
    /\ phase = "returned"
    /\ \E i, j \in Runs : /\ calls[i] = 1 /\ tasks[i].result = None
                          /\ j \in Succeeded

\* C5: with a strategy name other than json_mode, instructor and
\* structured_output no remote call is issued for any run.
C5_UnknownStrategyNoCall ==
    extraction_method \notin {"json_mode", "instructor", "structured_output"}
        => \A i \in 1..num_runs : calls[i] = 0

\* C5 witness: a batch of several runs with an unknown strategy name has
\* run to its end, every run having failed.
C5_Witness ==
    /\ extraction_method \notin {"json_mode", "instructor", "structured_output"}
    /\ phase = "returned"
    /\ num_runs >= 2
    /\ returned = <<>>

\* C6: each run issues at most one remote call, so a batch issues at most
\* num_runs of them: a failed run is not retried.
C6_AtMostOneCallPerRun ==
    /\ \A i \in 1..num_runs : calls[i] <= 1
    /\ SeqSum(calls) <= num_runs

\* C6 witness: a returned batch with a run whose one call failed.
C6_Witness ==
    /\ phase = "returned"
    /\ \E i \in Runs : calls[i] = 1 /\ tasks[i].result = None
    /\ SeqSum(calls) = num_runs

(***************************************************************************)
(* Claims about display_results, checked under SpecDisplay                 *)
(***************************************************************************)
Least(S) == CHOOSE x \in S : \A y \in S : x <= y

\* The four spellings of a declared field name, in lookup order: the name,
\* with underscores for spaces, lowercased, lowercased with underscores.
Candidates(name) == <<name, ReplaceSpace(name), Lower(name), ReplaceSpace(Lower(name))>>

\* The cell shown for result n under output field c (column 1 is the run).
ShownCell(n, c) == table[n][c + 1]

\* C7 as claimed: the cell shows the value of the first spelling that is a
\* key of the result, and 'N/A' only when none of the four is a key.
C7_FirstPresentKey ==
    shown =>
        \A n \in 1..Len(results), c \in 1..Len(output_fields) :
            LET r == results[n]
                cand == Candidates(output_fields[c])
                present == {q \in 1..4 : cand[q] \in DOMAIN r}
            IN  ShownCell(n, c) = IF present = {} THEN "N/A"
                                  ELSE PyStr(r[cand[Least(present)]])

\* C7 amended: the cell shows the value of the first spelling, in the order
\* name, underscored, lowercased, lowercased and underscored, that is a key
\* of the result with a value other than None; it shows 'N/A' when no
\* spelling has such a value.
C7_FirstNonNullKey ==
    shown =>
        \A n \in 1..Len(results), c \in 1..Len(output_fields) :
            LET r == results[n]
                cand == Candidates(output_fields[c])
                valued == {q \in 1..4 : cand[q] \in DOMAIN r /\ r[cand[q]] # PyNone}
            IN  ShownCell(n, c) = IF valued = {} THEN "N/A"
                                  ELSE PyStr(r[cand[Least(valued)]])

\* C7 witness: a field whose four spellings differ, a result that holds None
\* under the exact name and values under the lowercased spellings: the cell
\* shows the lowercased name's value.
C7_Witness ==
    /\ shown
    /\ Len(results) = 1
    /\ output_fields[1] = <<"A", " ">>
    /\ DOMAIN results[1] = {<<"A", " ">>, <<"a", " ">>, <<"a", "_">>}
    /\ results[1][<<"A", " ">>] = PyNone
    /\ results[1][<<"a", " ">>] = Str(1)
    /\ results[1][<<"a", "_">>] = Num(1)
    /\ ShownCell(1, 1) = "EUR"

\* The numbers among values: ints and floats, not booleans.
Numbers(values) == SelectSeq(values, LAMBDA v : v.k = "num")

\* C8 as claimed: an average is reported for a field exactly when one of its
\* values is a number, and it is the mean of exactly the numbers, to two
\* decimals.
C8_AverageOfTheNumbers ==
    shown =>
        \A c \in 1..Len(output_fields) :
            LET values == Values(results, output_fields[c])
                numbers == Numbers(values)
                line == summary.fields[c]
            IN  /\ line.has_average <=> numbers # <<>>
                /\ line.has_average =>
                      line.average = Format2f(ValueSum(numbers), Len(numbers))

\* How often x occurs in values.
Occurrences(values, x) == Cardinality({n \in 1..Len(values) : values[n] = x})

\* C9 as claimed: the most common value reported for a field occurs at least
\* as often among the field's values as any other value, and of the values
\* that do it is the one met first.
C9_MostCommonIsFirstMaximal ==
    shown =>
        \A c \in 1..Len(output_fields) :
            LET values == Values(results, output_fields[c])
                most == {n \in 1..Len(values) :
                            \A m \in 1..Len(values) :
                                Occurrences(values, values[n]) >= Occurrences(values, values[m])}
                line == summary.fields[c]
            IN  line.has_most_common => line.most_common = PyStr(values[Least(most)])

(***************************************************************************)
(* Claims about create_model_from_schema, checked under SpecSchema         *)
(***************************************************************************)
\* The fields of the model that stand for the property called name.
FieldsOf(name) == {k \in 1..Len(model.fields) : model.fields[k].alias = name}

\* C10 as claimed: the model of a schema of scalar properties has as many
\* fields as the schema has properties, one for each property, and the field
\* is required exactly when the property's name is in `required`.
C10_OneFieldPerProperty ==
    compiled =>
        /\ Len(model.fields) = Len(schema.properties)
        /\ \A p \in 1..Len(schema.properties) :
              LET name == schema.properties[p].name IN
              /\ Cardinality(FieldsOf(name)) = 1
              /\ \A k \in FieldsOf(name) :
                    ~model.fields[k].optional <=> name \in schema.required

\* The model's field definitions, none for a schema without 'properties'.
SchemaProperties == GetProperties(schema)

\* Is the property schema s an array whose items are objects with properties?
ArrayOfObjects(s) ==
    /\ s.type = "array"
    /\ "items" \in DOMAIN s
    /\ s.items.type = "object"
    /\ "properties" \in DOMAIN s.items

\* C11 as claimed: the field compiled for an array-of-object property is a
\* list of a nested model that has exactly one field for each entry of the
\* item's `properties` (as many fields as entries, one carrying each entry's
\* name), and that field's type is get_field_type of the entry's schema.
C11_ItemFieldPerProperty ==
    compiled =>
        \A p \in 1..Len(SchemaProperties) :
            LET s == SchemaProperties[p].schema IN
            ArrayOfObjects(s) =>
                \A k \in FieldsOf(SchemaProperties[p].name) :
                    LET t == model.fields[k].type IN
                    /\ t.kind = "List"
                    /\ t.item.kind = "Model"
                    /\ Len(t.item.fields) = Len(s.items.properties)
                    /\ \A q \in 1..Len(s.items.properties) :
                          LET entry == s.items.properties[q]
                              its == {f \in 1..Len(t.item.fields) :
                                         t.item.fields[f].alias = entry.name}
                          IN  /\ Cardinality(its) = 1
                              /\ \A f \in its :
                                    t.item.fields[f].type = GetFieldType(entry.schema)

\* In the descriptor fields, built for an object whose `required` list is
\* required, a field is optional exactly when its name is not in the list.
FollowsRequired(fields, required) ==
    \A f \in 1..Len(fields) : fields[f].optional <=> fields[f].alias \notin required

\* C12 as claimed: in the top-level model, in the model of a nested object
\* and in the model of an array's items, a field is optional exactly when
\* its name is absent from the `required` list of the schema object that
\* declares it.
C12_OptionalUnlessRequired ==
    compiled =>
        /\ FollowsRequired(model.fields, schema.required)
        /\ \A p \in 1..Len(SchemaProperties) :
              LET s == SchemaProperties[p].schema IN
              \A k \in FieldsOf(SchemaProperties[p].name) :
                  LET t == model.fields[k].type IN
                  /\ (s.type = "object" /\ "properties" \in DOMAIN s)
                        => FollowsRequired(t.fields, s.required)
                  /\ (ArrayOfObjects(s) /\ "required" \in DOMAIN s.items)
                        => FollowsRequired(t.item.fields, s.items.required)

\* Has the node s, or a node below it, type object and no 'properties'?
RECURSIVE MalformedNode(_)
MalformedNode(s) ==
    \/ /\ s.type = "object"
       /\ \/ "properties" \notin DOMAIN s
          \/ \E p \in 1..Len(s.properties) : MalformedNode(s.properties[p].schema)
    \/ /\ s.type = "array"
       /\ "items" \in DOMAIN s
       /\ MalformedNode(s.items)

\* The schema is malformed: the top level or a node of type object in it
\* has no 'properties'.
Malformed ==
    \/ "properties" \notin DOMAIN schema
    \/ \E p \in 1..Len(schema.properties) : MalformedNode(schema.properties[p].schema)

\* C13 as claimed: for a malformed schema create_model_from_schema does not
\* return a model, and the error that leaves it is a SchemaError.
C13_MalformedIsSchemaError ==
    Malformed => /\ ~compiled
                 /\ schema_error \in {"", "SchemaError"}

(***************************************************************************)
(* Claims about main, checked under SpecMain                               *)
(***************************************************************************)
\* The default of dimension d that main works with: the value of the
\* command line's option if it was given, else the value in config.json,
\* else none.
EffectiveDefault(d) ==
    IF args.override[d] # NoName THEN args.override[d]
    ELSE ConfigGet(config_file.content, DefaultKey(d))

\* The configuration is missing: config.json is not there, is not JSON or
\* has no 'models'; or, with -y, one of the five defaults is given neither
\* by config.json nor by the command line, or one of the three default
\* files is not in its directory.
ConfigurationMissing ==
    \/ config_file.state # "json"
    \/ "models" \notin DOMAIN config_file.content
    \/ /\ args.yes
       /\ \/ \E d \in DimensionSet : EffectiveDefault(d) = NoName
          \/ \E d \in FileDimensions : ~Exists(dirs[d], EffectiveDefault(d))

\* C14: when the configuration is missing (config.json absent, not JSON or
\* without 'models'; with -y a default missing or a default file that does
\* not exist) main never calls process_runs.
C14_NoRunWithoutConfiguration ==
    ConfigurationMissing => process_runs_calls = <<>>

\* C14 witness: main has returned from a -y run whose configuration has all
\* five defaults, one of the default files not existing.
C14_Witness ==
    /\ main_pc = "returned"
    /\ args.yes
    /\ config_file.state = "json"
    /\ "models" \in DOMAIN config_file.content
    /\ \A d \in DimensionSet : EffectiveDefault(d) # NoName
    /\ \E d \in FileDimensions : ~Exists(dirs[d], EffectiveDefault(d))
    /\ process_runs_calls = <<>>

\* The value the run uses for dimension d: an argument of the call of
\* process_runs, or the output schema handed to display_results.
Used(d) ==
    CASE d = "doc" -> process_runs_calls[1].file_path
      [] d = "schema" -> process_runs_calls[1].schema_path
      [] d = "model" -> process_runs_calls[1].model
      [] d = "extractor" -> process_runs_calls[1].extraction_method
      [] d = "output_schema" -> selected["output_schema"]

\* C15 as claimed: in a run, -y or interactive, a dimension whose option was
\* given on the command line has the option's value, and a dimension whose
\* option was not given has its default from config.json.
C15_OverrideIsUsed ==
    process_runs_calls # <<>> =>
        \A d \in DimensionSet : EffectiveDefault(d) # NoName => Used(d) = EffectiveDefault(d)

\* C15 amended: with -y every dimension has the option's value if the
\* option was given and config.json's default otherwise; in interactive mode
\* that holds of a dimension whose option's value (or default) is one of the
\* offered items, and otherwise the value is ignored and one of the offered
\* items is used.
C15_OverrideIsUsedIfOffered ==
    process_runs_calls # <<>> =>
        \A d \in DimensionSet :
            IF args.yes \/ In(EffectiveDefault(d), Offered(d, config, dirs))
            THEN Used(d) = EffectiveDefault(d)
            ELSE In(Used(d), Offered(d, config, dirs))

\* C15 witness: an interactive run was started in which an option of the
\* command line differs from config.json's default and its value is used.
C15_Witness ==
    /\ process_runs_calls # <<>>
    /\ ~args.yes
    /\ \E d \in DimensionSet :
          /\ args.override[d] # NoName
          /\ ConfigGet(config_file.content, DefaultKey(d)) \notin {NoName, args.override[d]}
          /\ Used(d) = args.override[d]

\* The choice typed is valid for a list of n items: a number from 1 to n
\* (the empty line stands for 1).
ValidChoice(typed, n) ==
    LET number == PyInt(PromptAsk(typed, <<"1">>)) IN
    number.ok /\ number.value >= 1 /\ number.value <= n

\* C18: in a round of a selection loop or of the run count loop, an input
\* that is not a number or is out of range selects nothing and starts no run:
\* the prompt comes again; a valid input returns the item it names. So every
\* item selected interactively is one of the offered items and every run
\* count got from the prompt is greater than 0.
C18_InvalidInputAsksAgain ==
    [][/\ \A d \in DimensionSet :
              main_pc = "choice_" \o d =>
                  LET items == Offered(d, config, dirs) IN
                  IF ValidChoice(last_input, Len(items))
                  THEN /\ main_pc' = After(d)
                       /\ selected'[d] = items[PyInt(PromptAsk(last_input, <<"1">>)).value]
                  ELSE /\ main_pc' = "prompt_" \o d
                       /\ selected' = selected
                       /\ process_runs_calls' = process_runs_calls
       /\ main_pc = "choice_num_runs" =>
              LET number == PyInt(PromptAsk(last_input, <<"1">>)) IN
              IF number.ok /\ number.value > 0
              THEN /\ Len(process_runs_calls') = 1
                   /\ process_runs_calls'[1].num_runs = number.value
              ELSE /\ main_pc' = "prompt_num_runs"
                   /\ selected' = selected
                   /\ process_runs_calls' = process_runs_calls
       /\ ~args.yes =>
              /\ \A d \in DimensionSet :
                    selected'[d] # NoName => In(selected'[d], Offered(d, config', dirs'))
              /\ ~args.num_runs.given =>
                    \A k \in 1..Len(process_runs_calls') : process_runs_calls'[k].num_runs > 0
      ]_vars

\* C18 witness: the user, having been asked to choose an item because the
\* default was not offered, has typed a number that is no run count.
C18_Witness ==
    /\ main_pc = "choice_num_runs"
    /\ last_input = <<"-", "1">>
    /\ \E d \in DimensionSet :
          /\ Len(Offered(d, config, dirs)) >= 2
          /\ ~In(EffectiveDefault(d), Offered(d, config, dirs))
          /\ In(selected[d], Offered(d, config, dirs))

\* C19 as claimed: every call of process_runs has a run count of at least 1,
\* whether the count is typed at the prompt, given with -n or the 1 that -y
\* uses.
C19_PositiveRunCount ==
    \A k \in 1..Len(process_runs_calls) : process_runs_calls[k].num_runs >= 1

(***************************************************************************)
(* Claims about a batch and its display, checked under SpecRun, SpecFair   *)
(* and Spec                                                                *)
(***************************************************************************)
\* C16 as claimed: the run number shown in a row of the Individual Results
\* table is the number the row's run was submitted under, also when an
\* earlier run failed and was dropped.
C16_RowShowsSubmissionNumber ==
    shown => \A n \in 1..Len(table) : table[n][1] = ToString(returned[n].run)

\* process_runs has ended and nothing is left of the batch: every task was
\* created and is done and nobody waits for a slot.
BatchOver ==
    /\ phase \in {"returned", "raised"}
    /\ Len(tasks) = num_runs
    /\ AllDone
    /\ semaphore.waiters = <<>>

\* C17 as claimed: every one of the runs gets a slot and completes, and
\* process_runs returns.
C17_EveryRunCompletesAndReturns ==
    <>(BatchOver /\ phase = "returned")

\* C17 amended: the batch always comes to an end with every task done and
\* no run waiting for a slot; process_runs returns, every run having had a
\* slot and ended with a record or with None, unless the document or the
\* schema file could not be read, in which case process_runs raises.
C17_EveryRunEndsReturnedOrAborted ==
    <>(/\ BatchOver
       /\ \/ /\ phase = "returned"
             /\ \A i \in Runs : tasks[i].result \in {None, Rec(i)}
          \/ /\ phase = "raised"
             /\ ~files_ok)

\* C17 witness: a batch of more runs than slots has returned, every call
\* having been issued, the files readable to the end.
C17_Witness ==
    /\ BatchOver
    /\ phase = "returned"
    /\ files_ok
    /\ num_runs > MaxConcurrent
    /\ \A i \in Runs : calls[i] = 1

\* C20: at all times the number of slots taken from the semaphore is the
\* number of runs inside `async with semaphore`, and once every run has
\* finished, however it ended, all slots are back.
C20_SlotsHeldAreRunsInside ==
    /\ MaxConcurrent - semaphore.value = Cardinality(InFlight)
    /\ (Len(tasks) = num_runs /\ AllDone) =>
           semaphore.value = MaxConcurrent /\ semaphore.waiters = <<>>

\* C20 witness: a batch of more runs than slots is over in which one run
\* ended with its record, one with None and one with the exception of a file
\* that could not be read.
C20_Witness ==
    /\ Len(tasks) = num_runs
    /\ num_runs > MaxConcurrent
    /\ AllDone
    /\ ~files_ok
    /\ \E i, j, k \in Runs : /\ tasks[i].result = Rec(i)
                             /\ tasks[j].result = None
                             /\ tasks[k].result = Raised
    /\ semaphore.value = MaxConcurrent

(***************************************************************************)
(* Claims about the extraction through a model, checked under SpecExtract  *)
(***************************************************************************)
\* The names of the schema's top-level properties.
TopLevelNames == NamesOf(GetProperties(schema))

\* C21: for a top-level schema property named P extracted by the instructor
\* or the structured_output extractor, the result has the key P lowercased
\* with spaces replaced by underscores, and the cell display_results shows
\* for an output field named P is that key's value: 'N/A' only when the
\* value is None, str(value) otherwise.
C21_NormalizedKeyIsFound ==
    results # <<>> =>
        \A P \in TopLevelNames :
            LET key == ReplaceSpace(Lower(P)) IN
            /\ key \in DOMAIN results[1]
            /\ shown =>
                  \A c \in 1..Len(output_fields) :
                      output_fields[c] = P =>
                          ShownCell(1, c) = IF results[1][key] = PyNone
                                            THEN "N/A"
                                            ELSE PyStr(results[1][key])

\* Reached: the property "A " was extracted under the key "a_" with a
\* value, and the row of the output field "A " shows it.
C21_Witness ==
    /\ shown
    /\ results # <<>>
    /\ output_fields = <<(<<"A", " ">>)>>
    /\ <<"A", " ">> \in TopLevelNames
    /\ DOMAIN results[1] = {<<"a", "_">>}
    /\ results[1][<<"a", "_">>] # PyNone
    /\ ShownCell(1, 1) # "N/A"

====
